---- MODULE Spec2Model ----
(***************************************************************************)
(* Playback-state store, view mounting and autoplay countdown of the       *)
(* video player (App.tsx, VideoPlayer, MiniPlayer, PipPlayer).             *)
(*                                                                         *)
(* The repository holds two revisions of the full player:                  *)
(*   variant "A"  src/src/components/VideoPlayer.tsx   ("Next" button,     *)
(*                Close button calls closePlayer directly)                 *)
(*   variant "B"  src/unnamed/part_003                 (handleClose,       *)
(*                PiP button)                                              *)
(* The variant is fixed at start-up and selects the handlers the full      *)
(* player offers.  The store operations of App.tsx are public (they are    *)
(* handed out through the context) and can be invoked in every state.      *)
(*                                                                         *)
(* One action is one event-loop task: the handler, the React re-render it  *)
(* causes and the effects of that commit.  A view removed from the tree    *)
(* is kept mounted by <AnimatePresence> until its exit animation is over;  *)
(* its unmount (and effect cleanup) is a later task of its own.            *)
(***************************************************************************)
EXTENDS Integers, Sequences, FiniteSets, TLC

\* ---------------------------------------------------------------- bounds
MaxTime   == 1      \* media length in abstract seconds (positions 0..MaxTime)
MaxTimers == 2      \* countdown intervals alive at the same time
MaxEvents == 1      \* play/pause notifications queued and not yet delivered
MaxToasts == 1      \* toasts on screen at the same time

\* ---------------------------------------------------------------- catalog
NoVideo == "none"
Catalog == <<"a1", "b1", "a2", "a3">>
Videos  == {Catalog[i] : i \in 1..Len(Catalog)}
categorySlug(v) == IF v \in {"a1", "a2", "a3"} THEN "a" ELSE "b"

IndexOf(v) == CHOOSE i \in 1..Len(Catalog) : Catalog[i] = v

\* a getNextVideo that ignores the category
getNextVideoAnyCategory(v) ==
  IF IndexOf(v) < Len(Catalog) THEN Catalog[IndexOf(v) + 1] ELSE NoVideo

\* data/videos.getNextVideo: the next video of the same category in catalog
\* order, null after the last one of the category.
getNextVideo(v) ==
  LET later == {i \in 1..Len(Catalog) :
                  i > IndexOf(v) /\ categorySlug(Catalog[i]) = categorySlug(v)}
  IN IF later = {} THEN NoVideo
     ELSE Catalog[CHOOSE i \in later : \A j \in later : i <= j]

\* the character codes of a video's slug
slugCodes(v) ==
  <<IF v = "b1" THEN 98 ELSE 97,
    IF v = "a2" THEN 50 ELSE IF v = "a3" THEN 51 ELSE 49>>

VARIABLES
  variant,   \* which revision of the full player is deployed
  store,     \* App's useState cells
  vid,       \* the shared <video> element (videoRef.current)
  events,    \* play / pause notifications queued by the element
  vp,        \* the VideoPlayer instance: mount status and local state
  pipMount,  \* the PipPlayer instance: mount status
  timers,    \* live setInterval handles of the autoplay countdown
  ticks,     \* history: firings of the interval countdownRef names, since
             \* it was started
  videoInteractions,  \* part_003's module-level record of likes, per video
  lastOp     \* history: the handler that ran last

vars == <<variant, store, vid, events, vp, pipMount, timers, ticks,
          videoInteractions, lastOp>>

\* ---------------------------------------------------------------- store
InitStore ==
  [currentVideo |-> NoVideo, isMinimized |-> FALSE, isPip |-> FALSE,
   isPlaying |-> FALSE, currentTime |-> 0, duration |-> 0, buffered |-> 0]

\* a playVideo that forgets setDuration(0)
playVideoKeepsDuration(s, video) ==
  [s EXCEPT !.currentVideo = video, !.isMinimized = FALSE, !.isPip = FALSE,
            !.isPlaying = TRUE, !.currentTime = 0, !.buffered = 0]

playVideo(s, video) ==
  [s EXCEPT !.currentVideo = video, !.isMinimized = FALSE, !.isPip = FALSE,
            !.isPlaying = TRUE, !.currentTime = 0, !.duration = 0,
            !.buffered = 0]

\* a minimizePlayer that forgets setIsPip(false)
minimizePlayerKeepsPip(s) == [s EXCEPT !.isMinimized = TRUE]

minimizePlayer(s) == [s EXCEPT !.isMinimized = TRUE, !.isPip = FALSE]

\* a maximizePlayer that also rewinds
maximizePlayerRewinds(s) ==
  [s EXCEPT !.isMinimized = FALSE, !.isPip = FALSE, !.currentTime = 0]

maximizePlayer(s) == [s EXCEPT !.isMinimized = FALSE, !.isPip = FALSE]

\* an enterPip that forgets setIsMinimized(false)
enterPipKeepsMinimized(s) == [s EXCEPT !.isPip = TRUE]

enterPip(s) == [s EXCEPT !.isPip = TRUE, !.isMinimized = FALSE]

\* an exitPip that goes to the mini player
exitPipMinimizes(s) == [s EXCEPT !.isPip = FALSE, !.isMinimized = TRUE]

exitPip(s) == [s EXCEPT !.isPip = FALSE, !.isMinimized = FALSE]

\* a closePlayer that forgets setIsPlaying(false)
closePlayerKeepsPlaying(s) ==
  [s EXCEPT !.currentVideo = NoVideo, !.isMinimized = FALSE, !.isPip = FALSE,
            !.currentTime = 0, !.duration = 0]

\* the setState calls of closePlayer (setBuffered is not among them)
closePlayer(s) ==
  [s EXCEPT !.currentVideo = NoVideo, !.isMinimized = FALSE, !.isPip = FALSE,
            !.isPlaying = FALSE, !.currentTime = 0, !.duration = 0]

\* render conditions of the three views
RenderFull(s) == s.currentVideo # NoVideo /\ ~s.isMinimized /\ ~s.isPip
RenderMini(s) == s.currentVideo # NoVideo /\ s.isMinimized
RenderPip(s)  == s.currentVideo # NoVideo /\ s.isPip

\* ---------------------------------------------------------------- element
\* vid.duration while the media length is not known
NaN == -1

\* vid.duration || 0
orZero(d) == IF d = NaN \/ d = 0 THEN 0 ELSE d

InitVid ==
  [src |-> NoVideo, paused |-> TRUE, currentTime |-> 0, duration |-> NaN,
   buffered |-> 0, parent |-> "holder"]

\* vid.pause(): queues a 'pause' notification when the element was playing
vidPause(v) == [v EXCEPT !.paused = TRUE]
pauseEvents(v, q) == IF v.paused THEN q ELSE Append(q, "pause")

\* vid.removeAttribute('src'); vid.load()
vidUnload(v) ==
  [v EXCEPT !.src = NoVideo, !.paused = TRUE, !.currentTime = 0,
            !.duration = NaN, !.buffered = 0]

\* vid.src = url; vid.load(); vid.play(): the load resets the element, the
\* play request is granted (ok) or rejected by the platform
vidLoadAndPlay(v, url, ok) ==
  [v EXCEPT !.src = url, !.paused = ~ok, !.currentTime = 0,
            !.duration = NaN, !.buffered = 0]
playEvents(q, ok) == IF ok THEN Append(q, "play") ELSE q

\* ---------------------------------------------------------------- views
\* controlsTimeout: the timeout of controlsTimeoutRef is pending
InitVp ==
  [mount |-> "absent", showAutoplayCountdown |-> FALSE,
   autoplayCountdown |-> 5, nextVideo |-> NoVideo, countdownRef |-> 0,
   showControls |-> TRUE, isSeeking |-> FALSE, controlsTimeout |-> FALSE,
   toasts |-> <<>>]

\* the auto-hide effect, run after a render in which showControls or
\* isSeeking changed (and on mount): its cleanup clears the pending timeout,
\* then a new one is set if the controls are shown and no seek is going on
autoHide(l) == [l EXCEPT !.controlsTimeout = l.showControls /\ ~l.isSeeking]

\* mount status of a view after a commit in which its render condition is c
MountAfter(m, c) ==
  IF c THEN "present" ELSE IF m = "absent" THEN "absent" ELSE "exiting"

\* does the commit run VideoPlayer's effects that depend on [currentVideo]
\* (on mount, and on every change of currentVideo while mounted)
RunsVideoEffects(s1, s2, m) ==
  \/ m = "absent" /\ RenderFull(s2)
  \/ m # "absent" /\ s1.currentVideo # s2.currentVideo

\* The render and commit that follow a store update from s1 to s2, with the
\* element and notification queue as the handler left them (v1, q1), the
\* full player's local state l1 and the play request's outcome ok.
Commit(s1, s2, v1, q1, l1, ok) ==
  LET mounting  == l1.mount = "absent" /\ RenderFull(s2)
      effects   == RunsVideoEffects(s1, s2, l1.mount) /\ s2.currentVideo # NoVideo
      pipMounts == pipMount = "absent" /\ RenderPip(s2)
      v2 == IF effects THEN vidLoadAndPlay(v1, s2.currentVideo, ok) ELSE v1
      v3 == IF mounting THEN [v2 EXCEPT !.parent = "full"]
            ELSE IF pipMounts THEN [v2 EXCEPT !.parent = "pip"] ELSE v2
      l2 == IF mounting THEN autoHide(InitVp) ELSE l1
  IN /\ effects => Len(q1) < MaxEvents
     /\ store' = s2
     /\ vid' = v3
     /\ events' = IF effects THEN playEvents(q1, ok) ELSE q1
     /\ vp' = [l2 EXCEPT !.mount = MountAfter(l1.mount, RenderFull(s2)),
                         !.nextVideo = IF effects
                                       THEN getNextVideo(s2.currentVideo)
                                       ELSE l2.nextVideo]
     /\ pipMount' = MountAfter(pipMount, RenderPip(s2))

\* history record of a handler: its name, the video it handed to playVideo,
\* and two numbers (a drag's offset and velocity; for a seek, its argument
\* or the position it started from)
Op(name) == [op |-> name, played |-> NoVideo, a |-> 0, b |-> 0]

\* ---------------------------------------------------------------- likes
RECURSIVE slugHash(_, _)
\* hash = ((hash << 5) - hash + slug.charCodeAt(i)) | 0, from character i on.
\* ((h << 5) - h is 31 * h; for the slugs of the catalog the value stays
\* far below 2^31, where "| 0" changes nothing.)
slugHash(codes, hash) ==
  IF codes = <<>> THEN hash
  ELSE slugHash(Tail(codes), 31 * hash + Head(codes))

Abs(x) == IF x < 0 THEN -x ELSE x

\* the record getInteraction creates for a slug it has not seen
getInteraction(v) ==
  [liked |-> FALSE, disliked |-> FALSE, saved |-> FALSE,
   likeCount |-> (Abs(slugHash(slugCodes(v), 0)) % 9000) + 1000]

Init ==
  /\ variant \in {"A", "B"}
  /\ videoInteractions = [v \in Videos |-> getInteraction(v)]
  /\ store = InitStore
  /\ vid = InitVid
  /\ events = <<>>
  /\ vp = InitVp
  /\ pipMount = "absent"
  /\ timers = {}
  /\ ticks = 0
  /\ lastOp = Op("init")

\* ---------------------------------------------------------------- store operations
PlayVideo(video) ==
  /\ \E ok \in BOOLEAN :
       Commit(store, playVideo(store, video), vid, events, vp, ok)
  /\ lastOp' = [Op("playVideo") EXCEPT !.played = video]
  /\ UNCHANGED <<variant, videoInteractions, timers, ticks>>

MinimizePlayer ==
  /\ \E ok \in BOOLEAN :
       Commit(store, minimizePlayer(store), vid, events, vp, ok)
  /\ lastOp' = Op("other")
  /\ UNCHANGED <<variant, videoInteractions, timers, ticks>>

MaximizePlayer ==
  /\ \E ok \in BOOLEAN :
       Commit(store, maximizePlayer(store), vid, events, vp, ok)
  /\ lastOp' = Op("maximizePlayer")
  /\ UNCHANGED <<variant, videoInteractions, timers, ticks>>

\* history: a = 1 if the session was minimized before
EnterPip ==
  /\ \E ok \in BOOLEAN :
       Commit(store, enterPip(store), vid, events, vp, ok)
  /\ lastOp' = [Op("enterPip") EXCEPT !.a = IF store.isMinimized THEN 1 ELSE 0]
  /\ UNCHANGED <<variant, videoInteractions, timers, ticks>>

\* history: a is the a of the enterPip that came immediately before (NaN if
\* none did)
ExitPip ==
  /\ \E ok \in BOOLEAN :
       Commit(store, exitPip(store), vid, events, vp, ok)
  /\ lastOp' = [Op("exitPip") EXCEPT
                  !.a = IF lastOp.op = "enterPip" THEN lastOp.a ELSE NaN]
  /\ UNCHANGED <<variant, videoInteractions, timers, ticks>>

ClosePlayer ==
  /\ ~vid.paused => Len(events) < MaxEvents
  /\ Commit(store, closePlayer(store), vidUnload(vidPause(vid)),
            pauseEvents(vid, events), vp, FALSE)
  /\ lastOp' = Op("closePlayer")
  /\ UNCHANGED <<variant, videoInteractions, timers, ticks>>

\* PipPlayer.handleClose: unloads the element itself, then closePlayer()
PipHandleClose ==
  /\ pipMount # "absent" /\ store.currentVideo # NoVideo
  /\ ~vid.paused => Len(events) < MaxEvents
  /\ Commit(store, closePlayer(store),
            vidUnload(vidPause(vidUnload(vidPause(vid)))),
            pauseEvents(vid, events), vp, FALSE)
  /\ lastOp' = Op("closePlayer")
  /\ UNCHANGED <<variant, videoInteractions, timers, ticks>>

\* a togglePlayPause that decides from the stored isPlaying
togglePlayPauseFromStore ==
  /\ Len(events) < MaxEvents
  /\ IF ~store.isPlaying
     THEN \E ok \in BOOLEAN :
            /\ vid' = [vid EXCEPT !.paused = vid.paused /\ ~ok]
            /\ events' = IF vid.paused THEN playEvents(events, ok) ELSE events
     ELSE /\ vid' = vidPause(vid)
          /\ events' = pauseEvents(vid, events)
  /\ lastOp' = [Op("togglePlayPause") EXCEPT
                  !.a = IF ~store.isPlaying THEN 1 ELSE 0]
  /\ UNCHANGED <<variant, videoInteractions, store, vp, pipMount, timers, ticks>>

\* history: a = 1 if vid.play() was called, 0 if vid.pause() was
togglePlayPause ==
  /\ Len(events) < MaxEvents
  /\ IF vid.paused
     THEN \E ok \in BOOLEAN :
            /\ vid' = [vid EXCEPT !.paused = ~ok]
            /\ events' = playEvents(events, ok)
     ELSE /\ vid' = vidPause(vid)
          /\ events' = pauseEvents(vid, events)
  /\ lastOp' = [Op("togglePlayPause") EXCEPT !.a = IF vid.paused THEN 1 ELSE 0]
  /\ UNCHANGED <<variant, videoInteractions, store, vp, pipMount, timers, ticks>>

\* ---------------------------------------------------------------- media notifications
\* onPlay / onPause: the oldest queued notification is delivered
OnPlayPause ==
  /\ events # <<>>
  /\ store' = [store EXCEPT !.isPlaying = (Head(events) = "play")]
  /\ events' = Tail(events)
  /\ lastOp' = Op("other")
  /\ UNCHANGED <<variant, videoInteractions, vid, vp, pipMount, timers, ticks>>

\* the element learns the media length d: onDurationChange, onLoadedMetadata
OnLoadedMetadataOf(d) ==
  /\ vid.src # NoVideo /\ vid.duration = NaN
  /\ vid' = [vid EXCEPT !.duration = d]
  /\ store' = [store EXCEPT !.duration = orZero(d), !.currentTime = 0]
  /\ lastOp' = Op("other")
  /\ UNCHANGED <<variant, videoInteractions, events, vp, pipMount, timers, ticks>>

OnLoadedMetadata == OnLoadedMetadataOf(MaxTime)

\* playback advances by one second: onTimeUpdate
OnTimeUpdate ==
  /\ ~vid.paused /\ vid.duration > 0 /\ vid.currentTime < vid.duration
  /\ vid' = [vid EXCEPT !.currentTime = @ + 1]
  /\ store' = [store EXCEPT !.currentTime = vid.currentTime + 1]
  /\ lastOp' = Op("other")
  /\ UNCHANGED <<variant, videoInteractions, events, vp, pipMount, timers, ticks>>

\* one more second is buffered: onProgress
OnProgress ==
  /\ vid.src # NoVideo /\ vid.buffered < MaxTime
  /\ vid' = [vid EXCEPT !.buffered = @ + 1]
  /\ store' = [store EXCEPT !.buffered = vid.buffered + 1]
  /\ lastOp' = Op("other")
  /\ UNCHANGED <<variant, videoInteractions, events, vp, pipMount, timers, ticks>>

\* ---------------------------------------------------------------- autoplay countdown
\* setInterval hands out a handle that no live interval and no ref uses
FreshTimerId ==
  CHOOSE i \in 1..(MaxTimers + 1) :
    /\ i # vp.countdownRef
    /\ \A t \in timers : t.id # i
    /\ \A j \in 1..(i - 1) : j = vp.countdownRef \/ \E t \in timers : t.id = j

\* startAutoplayCountdown(next) with a non-null target: the handle that
\* countdownRef held is overwritten, its interval is not cleared
startAutoplayCountdown(l, target) ==
  [l EXCEPT !.showAutoplayCountdown = TRUE, !.autoplayCountdown = 5,
            !.countdownRef = FreshTimerId]
startedTimers(ts, target) ==
  ts \cup {[id |-> FreshTimerId, target |-> target,
            forVideo |-> store.currentVideo]}

\* if (countdownRef.current) clearInterval(countdownRef.current)
clearCountdown(ts, l) == {t \in ts : t.id # l.countdownRef}

\* A handle whose interval was cleared is the same as no handle (clearing
\* it again does nothing, the browser never hands it out again): the ref
\* is kept as 0 from then on.
cancelAutoplay(l) ==
  [l EXCEPT !.showAutoplayCountdown = FALSE, !.autoplayCountdown = 5,
            !.countdownRef = 0]

\* the media element reports 'ended': it pauses, and the full player's
\* onEnded listener (attached while it is mounted) starts the countdown
OnEnded ==
  /\ ~vid.paused /\ vid.duration > 0 /\ vid.currentTime = vid.duration
  /\ Len(events) < MaxEvents
  /\ vid' = vidPause(vid)
  /\ events' = pauseEvents(vid, events)
  /\ LET next == IF store.currentVideo # NoVideo
                 THEN getNextVideo(store.currentVideo) ELSE NoVideo
     IN IF vp.mount # "absent" /\ next # NoVideo
        THEN /\ Cardinality(timers) < MaxTimers
             /\ vp' = startAutoplayCountdown(vp, next)
             /\ timers' = startedTimers(timers, next)
             /\ ticks' = 0
        ELSE UNCHANGED <<vp, timers, ticks>>
  /\ lastOp' = Op("ended")
  /\ UNCHANGED <<variant, videoInteractions, store, pipMount>>

\* the countdown overlay (z-40) is rendered and covers the controls (z-10)
OverlayShown(l) == l.showAutoplayCountdown /\ l.nextVideo # NoVideo

\* "Next" button of variant A (in the controls, rendered when nextVideo is
\* set): startAutoplayCountdown() with the nextVideo state
NextButton ==
  /\ variant = "A"
  /\ vp.mount # "absent" /\ store.currentVideo # NoVideo
  /\ vp.nextVideo # NoVideo /\ ~OverlayShown(vp)
  /\ Cardinality(timers) < MaxTimers
  /\ vp' = startAutoplayCountdown(vp, vp.nextVideo)
  /\ timers' = startedTimers(timers, vp.nextVideo)
  /\ ticks' = 0
  /\ lastOp' = Op("other")
  /\ UNCHANGED <<variant, videoInteractions, store, vid, events, pipMount>>

\* one firing of a countdown interval: the updater passed to
\* setAutoplayCountdown
Tick(t) ==
  /\ t \in timers
  /\ vp.mount # "absent"
  /\ IF vp.autoplayCountdown <= 1
     THEN /\ timers' = clearCountdown(timers, vp)
          /\ \E ok \in BOOLEAN :
               Commit(store, playVideo(store, t.target), vid, events,
                      cancelAutoplay(vp), ok)
          /\ ticks' = 0
          /\ lastOp' = [Op("tick") EXCEPT !.played = t.target]
     ELSE /\ vp' = [vp EXCEPT !.autoplayCountdown = @ - 1]
          /\ ticks' = IF t.id = vp.countdownRef THEN ticks + 1 ELSE ticks
          /\ lastOp' = Op("tick")
          /\ UNCHANGED <<store, vid, events, pipMount, timers>>
  /\ UNCHANGED <<variant, videoInteractions>>

\* "Cancel" button of the countdown overlay
CancelAutoplay ==
  /\ vp.mount # "absent" /\ store.currentVideo # NoVideo
  /\ OverlayShown(vp)
  /\ timers' = clearCountdown(timers, vp)
  /\ vp' = cancelAutoplay(vp)
  /\ ticks' = 0
  /\ lastOp' = Op("other")
  /\ UNCHANGED <<variant, videoInteractions, store, vid, events, pipMount>>

\* "Play Now" button: cancelAutoplay(); playVideo(nextVideo)
PlayNow ==
  /\ vp.mount # "absent" /\ store.currentVideo # NoVideo
  /\ OverlayShown(vp)
  /\ timers' = clearCountdown(timers, vp)
  /\ \E ok \in BOOLEAN :
       Commit(store, playVideo(store, vp.nextVideo), vid, events,
              cancelAutoplay(vp), ok)
  /\ ticks' = 0
  /\ lastOp' = [Op("playNow") EXCEPT !.played = vp.nextVideo]
  /\ UNCHANGED <<variant, videoInteractions>>

\* Close button of variant B (in the controls): handleClose
VpHandleClose ==
  /\ variant = "B"
  /\ vp.mount # "absent" /\ store.currentVideo # NoVideo
  /\ ~OverlayShown(vp)
  /\ ~vid.paused => Len(events) < MaxEvents
  /\ timers' = clearCountdown(timers, vp)
  /\ Commit(store, closePlayer(store), vidUnload(vidPause(vid)),
            pauseEvents(vid, events), cancelAutoplay(vp), FALSE)
  /\ ticks' = 0
  /\ lastOp' = Op("closePlayer")
  /\ UNCHANGED <<variant, videoInteractions>>

\* ---------------------------------------------------------------- unmounting
\* The exit animation of the full player is over: React unmounts it and
\* runs the effect cleanups (video moved back to the hidden holder,
\* clearInterval(countdownRef.current), 'ended' listener removed).
\* Intervals the ref no longer names are not cleared; their updates go to
\* the unmounted instance and are dropped by React.
VpExitComplete ==
  /\ vp.mount = "exiting"
  /\ vid' = [vid EXCEPT !.parent = "holder"]
  /\ timers' = {}
  /\ ticks' = 0
  /\ vp' = InitVp
  /\ lastOp' = Op("other")
  /\ UNCHANGED <<variant, videoInteractions, store, events, pipMount>>

\* The exit animation of the PiP player is over: its cleanup moves the
\* video back to the hidden holder.
PipExitComplete ==
  /\ pipMount = "exiting"
  /\ vid' = [vid EXCEPT !.parent = "holder"]
  /\ pipMount' = "absent"
  /\ lastOp' = Op("other")
  /\ UNCHANGED <<variant, videoInteractions, store, events, vp, timers, ticks>>

Next ==
  \/ \E v \in Videos : PlayVideo(v)
  \/ MinimizePlayer
  \/ MaximizePlayer
  \/ EnterPip
  \/ ExitPip
  \/ ClosePlayer
  \/ PipHandleClose
  \/ togglePlayPause
  \/ OnPlayPause
  \/ OnLoadedMetadata
  \/ OnTimeUpdate
  \/ OnProgress
  \/ OnEnded
  \/ NextButton
  \/ \E t \in timers : Tick(t)
  \/ CancelAutoplay
  \/ PlayNow
  \/ VpHandleClose
  \/ VpExitComplete
  \/ PipExitComplete

Spec == Init /\ [][Next]_vars

\* The store, the views and the media element.  The countdown handlers are
\* left out: what they do to the store, the views and the element is
\* playVideo (a tick, Play Now), closePlayer (handleClose) and the pause the
\* element reports at the end of the media, and these stay available in
\* every state as PlayVideo, ClosePlayer and togglePlayPause.
NextPlayer ==
  \/ \E v \in Videos : PlayVideo(v)
  \/ MinimizePlayer
  \/ MaximizePlayer
  \/ EnterPip
  \/ ExitPip
  \/ ClosePlayer
  \/ PipHandleClose
  \/ togglePlayPause
  \/ OnPlayPause
  \/ OnLoadedMetadata
  \/ OnTimeUpdate
  \/ OnProgress
  \/ VpExitComplete
  \/ PipExitComplete

SpecPlayer == Init /\ [][NextPlayer]_vars

\* The autoplay countdown with the store operations around it.  Buffering
\* progress is left out: it touches nothing but the two buffered fields.
NextAutoplay ==
  \/ \E v \in Videos : PlayVideo(v)
  \/ MinimizePlayer
  \/ MaximizePlayer
  \/ EnterPip
  \/ ExitPip
  \/ ClosePlayer
  \/ togglePlayPause
  \/ OnPlayPause
  \/ OnLoadedMetadata
  \/ OnTimeUpdate
  \/ OnEnded
  \/ NextButton
  \/ \E t \in timers : Tick(t)
  \/ CancelAutoplay
  \/ PlayNow
  \/ VpHandleClose
  \/ VpExitComplete
  \/ PipExitComplete

SpecAutoplay == Init /\ [][NextAutoplay]_vars

\* The store, the views and the element, with the notifications the
\* element has queued or is due to send delivered eventually (the browser
\* dispatches them); nothing obliges the user to act.
SpecPlayerFair ==
  /\ Init
  /\ [][NextPlayer]_vars
  /\ WF_vars(OnPlayPause)
  /\ WF_vars(OnLoadedMetadata)
  /\ WF_vars(OnTimeUpdate)
  /\ WF_vars(OnProgress)

\* ---------------------------------------------------------------- seeking
MaxDuration == 25   \* longest media, in seconds

SeekDurations == {5, 12, MaxDuration}
SeekInputs == {-3, 0, 4, 11, MaxDuration + 5}

Min(x, y) == IF x <= y THEN x ELSE y
Max(x, y) == IF x >= y THEN x ELSE y

\* vid.currentTime = Math.max(0, Math.min(time, vid.duration || 0))
seekTo(v, time) ==
  [v EXCEPT !.currentTime = Max(0, Min(time, orZero(v.duration)))]

\* a skipForward without the Math.min
skipForwardUnclamped(v) == [v EXCEPT !.currentTime = v.currentTime + 10]

\* vid.currentTime = Math.min(vid.currentTime + 10, vid.duration || 0)
skipForward(v) ==
  [v EXCEPT !.currentTime = Min(v.currentTime + 10, orZero(v.duration))]

\* a skipBackward that goes back to the start
skipBackwardToStart(v) == [v EXCEPT !.currentTime = 0]

\* vid.currentTime = Math.max(vid.currentTime - 10, 0)
skipBackward(v) == [v EXCEPT !.currentTime = Max(v.currentTime - 10, 0)]

SeekTo(time) ==
  /\ vid' = seekTo(vid, time)
  /\ lastOp' = [Op("seekTo") EXCEPT !.a = time]
  /\ UNCHANGED <<variant, videoInteractions, store, events, vp, pipMount, timers, ticks>>

\* history: a is the position before the skip
SkipForward ==
  /\ vid' = skipForward(vid)
  /\ lastOp' = [Op("skipForward") EXCEPT !.a = vid.currentTime]
  /\ UNCHANGED <<variant, videoInteractions, store, events, vp, pipMount, timers, ticks>>

\* history: a is the position before the skip, b the position before the
\* skipForward that came immediately before it (NaN if none did)
SkipBackward ==
  /\ vid' = skipBackward(vid)
  /\ lastOp' = [Op("skipBackward") EXCEPT
                  !.a = vid.currentTime,
                  !.b = IF lastOp.op = "skipForward" THEN lastOp.a ELSE NaN]
  /\ UNCHANGED <<variant, videoInteractions, store, events, vp, pipMount, timers, ticks>>

\* the 'timeupdate' the element sends after a seek: onTimeUpdate
OnTimeUpdateAfterSeek ==
  /\ store.currentTime # vid.currentTime
  /\ store' = [store EXCEPT !.currentTime = vid.currentTime]
  /\ lastOp' = Op("other")
  /\ UNCHANGED <<variant, videoInteractions, vid, events, vp, pipMount, timers, ticks>>

\* Seeking and skipping on the element, with media of several lengths.
NextSeek ==
  \/ PlayVideo("a1")
  \/ ClosePlayer
  \/ OnPlayPause
  \/ \E d \in SeekDurations : OnLoadedMetadataOf(d)
  \/ OnTimeUpdate
  \/ OnTimeUpdateAfterSeek
  \/ \E t \in SeekInputs : SeekTo(t)
  \/ SkipForward
  \/ SkipBackward

SpecSeek == Init /\ [][NextSeek]_vars

\* ---------------------------------------------------------------- drag gestures
DragOffsets == {-60, -50, 0, 50, 60, 100, 101, 120, 121, 150}
DragVelocities == {-150, -100, -50, 5, 20, 21, 30, 100, 101, 150}

\* a mini player that maximizes on the offset alone
miniDragMaximizesOnOffset(o, v) == o < -50

\* MiniPlayer.handleDragEnd, first condition
miniDragMaximizes(o, v) == o < -50 /\ v < -100

\* MiniPlayer.handleDragEnd, second condition
miniDragCloses(o, v) == o > 50 /\ v > 100

\* a full player that minimizes on the offset alone
vpDragMinimizesOnOffset(o, v) == o > (IF variant = "A" THEN 120 ELSE 100)

\* VideoPlayer.handleDragEnd: the offset threshold differs between the two
\* revisions
vpDragMinimizes(o, v) ==
  o > (IF variant = "A" THEN 120 ELSE 100) /\ v > 20

\* a drag released on the mini player: the two conditions are evaluated one
\* after the other on the same gesture
MiniHandleDragEnd(o, v) ==
  /\ RenderMini(store)
  /\ LET s1 == IF miniDragMaximizes(o, v) THEN maximizePlayer(store) ELSE store
         closes == miniDragCloses(o, v)
         s2 == IF closes THEN closePlayer(s1) ELSE s1
         v2 == IF closes THEN vidUnload(vidPause(vid)) ELSE vid
         q2 == IF closes THEN pauseEvents(vid, events) ELSE events
     IN /\ (closes /\ ~vid.paused) => Len(events) < MaxEvents
        /\ \E ok \in BOOLEAN : Commit(store, s2, v2, q2, vp, ok)
  /\ lastOp' = [Op("miniDrag") EXCEPT !.a = o, !.b = v]
  /\ UNCHANGED <<variant, videoInteractions, timers, ticks>>

\* a drag released on the full player (setIsDragging is local to the view
\* and only gates the tap that shows the controls)
VpHandleDragEnd(o, v) ==
  /\ vp.mount # "absent" /\ store.currentVideo # NoVideo
  /\ LET s2 == IF vpDragMinimizes(o, v) THEN minimizePlayer(store) ELSE store
     IN \E ok \in BOOLEAN : Commit(store, s2, vid, events, vp, ok)
  /\ lastOp' = [Op("vpDrag") EXCEPT !.a = o, !.b = v]
  /\ UNCHANGED <<variant, videoInteractions, timers, ticks>>

\* The drag gestures of the mini player and of the full player.
NextDrag ==
  \/ \E v \in Videos : PlayVideo(v)
  \/ MinimizePlayer
  \/ OnPlayPause
  \/ \E o \in DragOffsets, v \in DragVelocities : MiniHandleDragEnd(o, v)
  \/ \E o \in DragOffsets, v \in DragVelocities : VpHandleDragEnd(o, v)
  \/ VpExitComplete

SpecDrag == Init /\ [][NextDrag]_vars

\* ---------------------------------------------------------------- like, dislike, share
\* showToast(message); its removal 2500 ms later is ToastExpires
showToast(l, message) ==
  IF message = "none" THEN l ELSE [l EXCEPT !.toasts = Append(@, message)]

\* handleLike on the interaction record of the current video
handleLike(s) ==
  IF s.liked
  THEN [s EXCEPT !.liked = FALSE, !.likeCount = @ - 1]
  ELSE [s EXCEPT !.liked = TRUE, !.likeCount = @ + 1, !.disliked = FALSE]

\* a handleDislike that forgets s.likeCount--
handleDislikeKeepsCount(s) ==
  IF s.disliked
  THEN [s EXCEPT !.disliked = FALSE]
  ELSE [s EXCEPT !.disliked = TRUE, !.liked = FALSE]

\* handleDislike on the interaction record of the current video
handleDislike(s) ==
  IF s.disliked
  THEN [s EXCEPT !.disliked = FALSE]
  ELSE [s EXCEPT !.disliked = TRUE, !.liked = FALSE,
                 !.likeCount = IF s.liked THEN @ - 1 ELSE @]

\* history: a = 1 if the video was liked before the click, b = 1 if it was
\* disliked
HandleLike ==
  /\ variant = "B"
  /\ vp.mount # "absent" /\ store.currentVideo # NoVideo
  /\ Len(vp.toasts) < MaxToasts
  /\ LET s == videoInteractions[store.currentVideo]
     IN /\ videoInteractions' =
             [videoInteractions EXCEPT ![store.currentVideo] = handleLike(s)]
        /\ vp' = showToast(vp, IF s.liked THEN "Like removed"
                               ELSE "Added to Liked videos")
        /\ lastOp' = [Op("handleLike") EXCEPT
                        !.a = IF s.liked THEN 1 ELSE 0,
                        !.b = IF s.disliked THEN 1 ELSE 0]
  /\ UNCHANGED <<variant, store, vid, events, pipMount, timers, ticks>>

HandleDislike ==
  /\ variant = "B"
  /\ vp.mount # "absent" /\ store.currentVideo # NoVideo
  /\ Len(vp.toasts) < MaxToasts
  /\ LET s == videoInteractions[store.currentVideo]
     IN /\ videoInteractions' =
             [videoInteractions EXCEPT ![store.currentVideo] = handleDislike(s)]
        /\ vp' = showToast(vp, IF s.disliked THEN "Dislike removed"
                               ELSE "Video disliked")
        /\ lastOp' = [Op("handleDislike") EXCEPT
                        !.a = IF s.liked THEN 1 ELSE 0,
                        !.b = IF s.disliked THEN 1 ELSE 0]
  /\ UNCHANGED <<variant, store, vid, events, pipMount, timers, ticks>>

\* What the platform answers to navigator.share: "none" when the browser
\* has no navigator.share, "ok" when the promise resolves, otherwise the
\* name of the error it rejects with.
ShareOutcomes == <<"none", "ok", "AbortError", "NotAllowedError">>

\* a handleShare whose catch does not test for AbortError
shareToastWithoutAbortTest(shared, copyTry, copyCatch) ==
  IF shared = "ok" THEN "Shared successfully"
  ELSE IF shared = "none" /\ copyTry THEN "Link copied to clipboard"
  ELSE IF copyCatch THEN "Link copied to clipboard"
  ELSE "Could not share"

\* The toast handleShare ends with ("none": no toast).  copyTry is the
\* outcome of clipboard.writeText in the try block (reached without
\* navigator.share), copyCatch that of the one in the catch block.
shareToast(shared, copyTry, copyCatch) ==
  IF shared = "ok" THEN "Shared successfully"
  ELSE IF shared = "none" /\ copyTry THEN "Link copied to clipboard"
  ELSE IF shared = "AbortError" THEN "none"
  ELSE IF copyCatch THEN "Link copied to clipboard"
  ELSE "Could not share"

\* The share sheet and the clipboard write are awaited; no other handler
\* of the page runs in between (the sheet is modal).
\* history: a = index of the share outcome, b = 1 if the copy of the try
\* block succeeds, plus 2 if the copy of the catch block does
HandleShare(i, copyTry, copyCatch) ==
  /\ variant = "B"
  /\ vp.mount # "absent" /\ store.currentVideo # NoVideo
  /\ Len(vp.toasts) < MaxToasts
  /\ vp' = showToast(vp, shareToast(ShareOutcomes[i], copyTry, copyCatch))
  /\ lastOp' = [Op("handleShare") EXCEPT
                  !.a = i,
                  !.b = (IF copyTry THEN 1 ELSE 0) + (IF copyCatch THEN 2 ELSE 0)]
  /\ UNCHANGED <<variant, videoInteractions, store, vid, events, pipMount,
                 timers, ticks>>

\* the timeout of the oldest toast fires
ToastExpires ==
  /\ vp.mount # "absent" /\ vp.toasts # <<>>
  /\ vp' = [vp EXCEPT !.toasts = Tail(@)]
  /\ lastOp' = Op("other")
  /\ UNCHANGED <<variant, videoInteractions, store, vid, events, pipMount,
                 timers, ticks>>

\* The action buttons under the video, on two videos of the catalog.
NextActions ==
  \/ \E v \in {"a1", "b1"} : PlayVideo(v)
  \/ OnPlayPause
  \/ HandleLike
  \/ HandleDislike
  \/ \E i \in 1..Len(ShareOutcomes), copyTry \in BOOLEAN, copyCatch \in BOOLEAN :
       HandleShare(i, copyTry, copyCatch)
  \/ ToastExpires

SpecActions == Init /\ [][NextActions]_vars

\* ---------------------------------------------------------------- on-screen controls
\* resetControlsTimer: clearTimeout(controlsTimeoutRef.current);
\* setShowControls(true).  The auto-hide effect runs again only if
\* showControls changes with it.
resetControlsTimer(l) ==
  IF l.showControls
  THEN [l EXCEPT !.controlsTimeout = FALSE]
  ELSE autoHide([l EXCEPT !.showControls = TRUE])

\* a skip button or a double tap on a side of the video: handleSkip
\* (setSkipFeedback and its 700 ms timeout only drive the ripple animation)
\* history: a = 1 if the controls were shown before
HandleSkip(dir) ==
  /\ vp.mount = "present" /\ store.currentVideo # NoVideo
  /\ vid' = IF dir = "forward" THEN skipForward(vid) ELSE skipBackward(vid)
  /\ vp' = resetControlsTimer(vp)
  /\ lastOp' = [Op("handleSkip") EXCEPT !.a = IF vp.showControls THEN 1 ELSE 0]
  /\ UNCHANGED <<variant, videoInteractions, store, events, pipMount, timers,
                 ticks>>

\* a tap on the video: handleTap
HandleTap ==
  /\ vp.mount = "present" /\ store.currentVideo # NoVideo
  /\ vp' = autoHide([vp EXCEPT !.showControls = ~@])
  /\ lastOp' = Op("other")
  /\ UNCHANGED <<variant, videoInteractions, store, vid, events, pipMount,
                 timers, ticks>>

\* the seek bar is pressed or released: setIsSeeking
SetIsSeeking(seeking) ==
  /\ vp.mount = "present" /\ store.currentVideo # NoVideo
  /\ vp.showControls /\ vp.isSeeking # seeking
  /\ vp' = autoHide([vp EXCEPT !.isSeeking = seeking])
  /\ lastOp' = Op("other")
  /\ UNCHANGED <<variant, videoInteractions, store, vid, events, pipMount,
                 timers, ticks>>

\* the auto-hide timeout fires: setShowControls(false)
ControlsTimeout ==
  /\ vp.mount # "absent" /\ vp.controlsTimeout
  /\ vp' = autoHide([vp EXCEPT !.showControls = FALSE])
  /\ lastOp' = Op("other")
  /\ UNCHANGED <<variant, videoInteractions, store, vid, events, pipMount,
                 timers, ticks>>

\* The on-screen controls of the full player and their auto-hide timeout.
NextControls ==
  \/ \E v \in {"a1", "b1"} : PlayVideo(v)
  \/ ClosePlayer
  \/ VpExitComplete
  \/ OnPlayPause
  \/ OnLoadedMetadata
  \/ OnTimeUpdate
  \/ \E dir \in {"forward", "backward"} : HandleSkip(dir)
  \/ HandleTap
  \/ \E seeking \in BOOLEAN : SetIsSeeking(seeking)
  \/ ControlsTimeout

SpecControls == Init /\ [][NextControls]_vars

\* ================================================================ properties
ViewsRendered ==
  (IF RenderFull(store) THEN 1 ELSE 0) + (IF RenderMini(store) THEN 1 ELSE 0)
    + (IF RenderPip(store) THEN 1 ELSE 0)

\* C1: exactly one of the three player views satisfies its render condition
\* when currentVideo is non-null, and none does when it is null.
C1_ExactlyOneView ==
  ViewsRendered = (IF store.currentVideo # NoVideo THEN 1 ELSE 0)

\* PiP entered from the mini player: only the PiP view is selected
C1_Witness ==
  /\ store.currentVideo # NoVideo /\ store.isPip
  /\ pipMount = "present" /\ vp.mount = "absent"

\* C2: right after playVideo(video) the store holds video, view mode Full,
\* currentTime = duration = buffered = 0 and isPlaying = true, whatever the
\* state before.
C2_PlayVideoResets ==
  lastOp.op = "playVideo" =>
    store = [currentVideo |-> lastOp.played, isMinimized |-> FALSE,
             isPip |-> FALSE, isPlaying |-> TRUE, currentTime |-> 0,
             duration |-> 0, buffered |-> 0]

\* playVideo("a2") invoked in PiP while another video was loaded and being
\* played: the PiP view is still leaving, the element already holds a2
C2_Witness ==
  /\ lastOp.op = "playVideo" /\ lastOp.played = "a2"
  /\ store.currentVideo = "a2" /\ pipMount = "exiting"
  /\ vid.src = "a2" /\ events # <<>>

\* C3: right after closePlayer() the store holds no video, view mode Hidden,
\* currentTime = 0 and isPlaying = false, and the element is paused with
\* its source cleared.
C3_CloseHidesAndUnloads ==
  lastOp.op = "closePlayer" =>
    /\ store.currentVideo = NoVideo
    /\ ~store.isMinimized /\ ~store.isPip
    /\ store.currentTime = 0 /\ ~store.isPlaying
    /\ vid.paused /\ vid.src = NoVideo

\* closed from PiP while a video was playing: the PiP view is leaving and
\* the element's 'pause' notification is still queued
C3_Witness ==
  /\ lastOp.op = "closePlayer"
  /\ pipMount = "exiting"
  /\ events = <<"pause">>

\* C4: a playVideo(B) invoked while a countdown is counting cancels that
\* countdown: a tick calls playVideo only for the countdown of the video
\* that is still the current one.
C4_NewVideoCancelsCountdown ==
  [][\A t \in timers :
       (Tick(t) /\ vp.autoplayCountdown <= 1 /\ store.currentVideo # NoVideo)
         => t.forVideo = store.currentVideo]_vars

\* C5: after closePlayer() no countdown tick calls playVideo: a tick never
\* takes the session out of Hidden.
C5_CloseCancelsCountdown ==
  [][(store.currentVideo = NoVideo /\ \E t \in timers : Tick(t))
       => store'.currentVideo = NoVideo]_vars

\* C6: right after closePlayer() every transport field is zero/false:
\* currentTime = 0, duration = 0, buffered = 0, isPlaying = false.
C6_CloseResetsTransport ==
  lastOp.op = "closePlayer" =>
    /\ store.currentTime = 0 /\ store.duration = 0
    /\ store.buffered = 0 /\ ~store.isPlaying

\* C7: a view-mode transition that keeps the current video (with the mount
\* of the full player it causes) does not reassign or reload the element's
\* source, reset its position or change its paused state.
C7_ViewChangeKeepsPlayback ==
  [][(store.currentVideo # NoVideo
        /\ (MinimizePlayer \/ MaximizePlayer \/ EnterPip \/ ExitPip))
       => /\ vid'.src = vid.src
          /\ vid'.currentTime = vid.currentTime
          /\ vid'.duration = vid.duration
          /\ vid'.paused = vid.paused]_vars

\* C8: with a video loaded and no view left to unmount, the <video> element
\* is under the container of the view of the current view mode; it is in
\* the hidden holder only when the view mode is Hidden.
C8_VideoUnderActiveView ==
  (store.currentVideo # NoVideo /\ vp.mount # "exiting" /\ pipMount # "exiting")
    => /\ RenderFull(store) => vid.parent = "full"
       /\ RenderMini(store) => vid.parent = "mini"
       /\ RenderPip(store) => vid.parent = "pip"

\* C9: a tick calls playVideo exactly when it is the 5th firing of the
\* running countdown, and then the sequencer is Idle: overlay hidden,
\* counter back to 5, no interval left to tick.
C9_FifthTickPlaysOnce ==
  [][\A t \in timers :
       Tick(t) =>
         /\ (vp.autoplayCountdown <= 1) <=> (t.id = vp.countdownRef /\ ticks = 4)
         /\ (vp.autoplayCountdown <= 1) =>
              /\ timers' = {}
              /\ ~vp'.showAutoplayCountdown
              /\ vp'.autoplayCountdown = 5]_vars

\* C10: cancelling the countdown returns the sequencer to Idle (overlay
\* hidden, counter 5, no interval left that could call playVideo) and
\* leaves the store and the element as they were.
C10_CancelReturnsToIdle ==
  [][CancelAutoplay =>
       /\ ~vp'.showAutoplayCountdown
       /\ vp'.autoplayCountdown = 5
       /\ timers' = {}
       /\ store' = store
       /\ vid' = vid]_vars

\* C11: at most one autoplay countdown interval is live at any time.
C11_AtMostOneTimer == Cardinality(timers) <= 1

\* C12: when the element reports 'ended' while a video is loaded, whatever
\* the view mode, a countdown towards the next video of the category starts
\* with the counter at 5 if there is such a video, and nothing starts if
\* there is none.
C12_EndedStartsCountdown ==
  [][(OnEnded /\ store.currentVideo # NoVideo) =>
       IF getNextVideo(store.currentVideo) # NoVideo
       THEN /\ vp'.showAutoplayCountdown
            /\ vp'.autoplayCountdown = 5
            /\ \E t \in timers' :
                 /\ t.id = vp'.countdownRef
                 /\ t.target = getNextVideo(store.currentVideo)
       ELSE /\ vp' = vp
            /\ timers' = timers]_vars

\* C13: "Play Now" leaves the state that cancelling the countdown and then
\* playVideo(target) leaves, target being the video the running countdown
\* was started for: no interval left, overlay hidden, counter 5, and the
\* store as playVideo(target) sets it.
C13_PlayNowIsCancelThenPlay ==
  [][PlayNow =>
       /\ timers' = {}
       /\ ~vp'.showAutoplayCountdown
       /\ vp'.autoplayCountdown = 5
       /\ \A t \in timers :
            t.id = vp.countdownRef =>
              /\ store' = playVideo(store, t.target)
              /\ lastOp'.played = t.target]_vars

\* C18: no store operation writes a transport field (currentTime, duration,
\* buffered, isPlaying); only the handlers of the element's notifications do.
C18_TransportOnlyByNotifications ==
  [][((\E v \in Videos : PlayVideo(v)) \/ ClosePlayer \/ PipHandleClose
        \/ togglePlayPause \/ MinimizePlayer \/ MaximizePlayer \/ EnterPip
        \/ ExitPip)
       => /\ store'.currentTime = store.currentTime
          /\ store'.duration = store.duration
          /\ store'.buffered = store.buffered
          /\ store'.isPlaying = store.isPlaying]_vars

\* C20: togglePlayPause() with no video loaded is a no-op: no play or pause
\* request reaches the element and the session state stays as it was.
C20_ToggleWithoutVideoIsNoOp ==
  [][(store.currentVideo = NoVideo /\ togglePlayPause)
       => /\ vid' = vid
          /\ events' = events
          /\ store' = store]_vars

\* C14: whatever seekTo, skipForward and skipBackward calls were made, the
\* element's position is within [0, duration] (an unknown duration counting
\* as 0); skipForward writes min(position + 10, duration) and skipBackward
\* writes max(position - 10, 0).
C14_SeekStaysInRange ==
  /\ 0 <= vid.currentTime
  /\ vid.currentTime <= orZero(vid.duration)
  /\ lastOp.op = "skipForward" =>
       vid.currentTime = Min(lastOp.a + 10, orZero(vid.duration))
  /\ lastOp.op = "skipBackward" =>
       vid.currentTime = Max(lastOp.a - 10, 0)

\* a skipForward stopped by the end of a 12-second media
C14_Witness ==
  /\ lastOp.op = "skipForward" /\ lastOp.a = 4
  /\ vid.duration = 12 /\ vid.currentTime = 12

C16_MiniDragThresholds ==
  [][(lastOp'.op = "miniDrag" /\ MiniHandleDragEnd(lastOp'.a, lastOp'.b)) =>
       LET o == lastOp'.a
           v == lastOp'.b
       IN /\ (store' = maximizePlayer(store)) <=> (o < -50 /\ v < -100)
          /\ (store' = closePlayer(store)) <=> (o > 50 /\ v > 100)
          /\ ~(o < -50 /\ v < -100) /\ ~(o > 50 /\ v > 100)
               => store' = store /\ vid' = vid /\ events' = events]_vars

\* the mini player dragged up by 60 at velocity -150: the full player is back
C16_Witness ==
  /\ lastOp.op = "miniDrag" /\ lastOp.a = -60 /\ lastOp.b = -150
  /\ RenderFull(store) /\ vp.mount = "present"

\* C17: a drag released on the full player (view mode Full) with offset o
\* and velocity v calls minimizePlayer whenever o >= 150 and v >= 30, never
\* when v <= 20, never when o <= 100, and calls no other store operation.
C17_FullDragThresholds ==
  [][(lastOp'.op = "vpDrag" /\ RenderFull(store)
        /\ VpHandleDragEnd(lastOp'.a, lastOp'.b)) =>
       LET o == lastOp'.a
           v == lastOp'.b
       IN /\ (o >= 150 /\ v >= 30) => store' = minimizePlayer(store)
          /\ (v <= 20 \/ o <= 100) => store' = store
          /\ store' \in {store, minimizePlayer(store)}
          /\ vid' = vid]_vars

\* the full player dragged down by 150 at velocity 30: the mini player shows
C17_Witness ==
  /\ lastOp.op = "vpDrag" /\ lastOp.a = 150 /\ lastOp.b = 30
  /\ RenderMini(store) /\ vp.mount = "exiting"

\* C19: when the play request made for playVideo is rejected, isPlaying
\* eventually agrees again with the element's paused state.
C19_RejectedPlayCorrected ==
  (lastOp.op = "playVideo" /\ vid.paused) ~> (store.isPlaying = ~vid.paused)

\* C25: the share action ends in exactly one outcome: 'Shared successfully'
\* when the platform share succeeds; nothing at all when the user cancels
\* it (AbortError); 'Link copied to clipboard' when the share fails
\* otherwise, or does not exist, and a clipboard copy succeeds; 'Could not
\* share' when the copy fails as well.
C25_ShareOutcomes ==
  [][(lastOp'.op = "handleShare") =>
       LET shared == ShareOutcomes[lastOp'.a]
           copyTry == lastOp'.b % 2 = 1
           copyCatch == lastOp'.b >= 2
           toast(message) == vp' = [vp EXCEPT !.toasts = Append(@, message)]
       IN /\ shared = "ok" => toast("Shared successfully")
          /\ shared = "AbortError" => vp' = vp
          /\ shared = "NotAllowedError" =>
               IF copyCatch THEN toast("Link copied to clipboard")
               ELSE toast("Could not share")
          /\ shared = "none" =>
               IF copyTry \/ copyCatch THEN toast("Link copied to clipboard")
               ELSE toast("Could not share")
          /\ store' = store /\ vid' = vid
          /\ videoInteractions' = videoInteractions]_vars

\* the share failed for another reason than a cancel, the copy succeeded
C25_Witness ==
  /\ lastOp.op = "handleShare" /\ ShareOutcomes[lastOp.a] = "NotAllowedError"
  /\ lastOp.b >= 2
  /\ vp.toasts = <<"Link copied to clipboard">>

\* C30: for every video, liked and disliked are never both true, and
\* likeCount is the initial count plus 1 when liked and the initial count
\* when not.
C30_LikeDislikeConsistent ==
  \A v \in Videos :
    LET s == videoInteractions[v]
    IN /\ ~(s.liked /\ s.disliked)
       /\ s.likeCount = getInteraction(v).likeCount + (IF s.liked THEN 1 ELSE 0)

\* a liked video has just been disliked
C30_Witness ==
  /\ lastOp.op = "handleDislike" /\ lastOp.a = 1
  /\ videoInteractions["a1"].disliked /\ ~videoInteractions["a1"].liked
  /\ videoInteractions["a1"].likeCount = 4056
  /\ videoInteractions["b1"].liked

\* C24: a skip on the full player resets the control-hide timer: after it,
\* with no seek going on, the controls are shown and a hide timeout is
\* pending (so they are hidden again once it fires), whether the controls
\* were hidden or shown before.
C24_SkipRestartsHideTimer ==
  (lastOp.op = "handleSkip" /\ vp.mount = "present" /\ ~vp.isSeeking)
    => vp.showControls /\ vp.controlsTimeout

\* C21: isMinimized = true or isPip = true implies that a video is loaded
\* (minimizePlayer and enterPip do nothing while no video is loaded).
C21_ViewFlagsNeedVideo ==
  (store.isMinimized \/ store.isPip) => store.currentVideo # NoVideo

\* C22: minimizePlayer, maximizePlayer, enterPip and exitPip leave
\* currentVideo, isPlaying, currentTime, duration and buffered as they were.
C22_ViewOpsKeepTransport ==
  [][(MinimizePlayer \/ MaximizePlayer \/ EnterPip \/ ExitPip)
       => /\ store'.currentVideo = store.currentVideo
          /\ store'.isPlaying = store.isPlaying
          /\ store'.currentTime = store.currentTime
          /\ store'.duration = store.duration
          /\ store'.buffered = store.buffered]_vars

\* the full player brought back from the mini player, a second into a
\* video that is playing and buffered
C22_Witness ==
  /\ lastOp.op = "maximizePlayer" /\ RenderFull(store)
  /\ store.isPlaying /\ store.currentTime = 1 /\ store.duration = 1
  /\ store.buffered = 1

\* C23: the next video of the loaded video V, as the full player holds it,
\* is null or the video of V's category that follows V immediately in
\* catalog order: null exactly when V is the last of its category, never V,
\* never of another category, never one before V.
C23_NextVideoOfCategory ==
  (vp.mount = "present" /\ store.currentVideo # NoVideo) =>
    LET V == store.currentVideo
        n == vp.nextVideo
        later == {w \in Videos : /\ categorySlug(w) = categorySlug(V)
                                 /\ IndexOf(w) > IndexOf(V)}
    IN /\ n = NoVideo <=> later = {}
       /\ n # NoVideo =>
            /\ n \in later
            /\ \A w \in later : IndexOf(n) <= IndexOf(w)

\* a1 is loaded: the next video is a2, past b1 of the other category
C23_Witness ==
  /\ vp.mount = "present" /\ store.currentVideo = "a1" /\ vp.nextVideo = "a2"

\* C26: togglePlayPause requests play exactly when the element is paused and
\* pause otherwise, whatever the stored isPlaying says, and does not write
\* the store.
C26_ToggleFollowsElement ==
  [][togglePlayPause =>
       /\ store' = store
       /\ IF vid.paused
          THEN /\ lastOp'.a = 1
               /\ events' \in {events, Append(events, "play")}
               /\ vid'.paused = (events' = events)
          ELSE /\ lastOp'.a = 0
               /\ vid'.paused
               /\ events' = Append(events, "pause")]_vars

\* a toggle that started playback although isPlaying was already true (the
\* play request of playVideo had been rejected)
C26_Witness ==
  /\ lastOp.op = "togglePlayPause" /\ lastOp.a = 1
  /\ store.isPlaying /\ ~vid.paused /\ events = <<"play">>

\* C27: with a video loaded, enterPip results in PictureInPicture, and
\* exitPip results in the view mode from which PiP was entered: Full after
\* Full, Minimized after Minimized.
C27_ExitPipRestoresMode ==
  store.currentVideo # NoVideo =>
    /\ lastOp.op = "enterPip" => RenderPip(store) /\ ~store.isMinimized
    /\ (lastOp.op = "exitPip" /\ lastOp.a = 0) => RenderFull(store)
    /\ (lastOp.op = "exitPip" /\ lastOp.a = 1) =>
         RenderMini(store) /\ ~store.isPip

\* C27 as amended: with a video loaded, enterPip results in
\* PictureInPicture, and exitPip results in Full, from whichever view mode
\* PiP was entered.
C27_ExitPipGoesFull ==
  store.currentVideo # NoVideo =>
    /\ lastOp.op = "enterPip" => RenderPip(store) /\ ~store.isMinimized
    /\ lastOp.op = "exitPip" => RenderFull(store)

\* PiP entered from the mini player and left again: the full player is up
C27_Witness ==
  /\ lastOp.op = "exitPip" /\ lastOp.a = 1
  /\ RenderFull(store) /\ vp.mount = "present" /\ pipMount = "exiting"

\* C28: isMinimized and isPip are never both true.
C28_NotMinimizedAndPip == ~(store.isMinimized /\ store.isPip)

\* PiP entered from the mini player: the flags have swapped
C28_Witness ==
  /\ lastOp.op = "enterPip" /\ lastOp.a = 1
  /\ store.isPip /\ ~store.isMinimized /\ store.currentVideo # NoVideo

\* C29: once the view mode has left Full with a video loaded, no countdown
\* interval is live, and no tick calls playVideo or brings the session back
\* to Full.
C29_CountdownOnlyWhileFull ==
  [][(store.currentVideo # NoVideo /\ ~RenderFull(store)
        /\ \E t \in timers : Tick(t))
       => ~RenderFull(store') /\ lastOp'.played = NoVideo]_vars
====
